---- MODULE Spec2Model ----
(***************************************************************************)
(* A model of the resume screener's retrieval pipeline:                    *)
(*   - the SQLite similarity store (src/rag/vectorstore.py),               *)
(*   - the segmenter chunk_text (src/rag/chunking.py),                     *)
(*   - the orchestrator RAGService (src/rag/rag.py) with its generation    *)
(*     backend (src/rag/llm.py).                                           *)
(*   - the hashing embedder (src/rag/embeddings.py).                       *)
(* Several specifications share the module: SpecStore drives the store's   *)
(* operations one call at a time, SpecConc runs a writer and a reader      *)
(* thread on one store, SpecChunk applies chunk_text to bounded texts,     *)
(* SpecSplit runs one chunk_text call statement by statement, SpecEmbed    *)
(* embeds bounded texts, SpecIngest ingests versions of documents, and     *)
(* Spec runs answer / screen / compare requests step by step.              *)
(*                                                                         *)
(* Numbers.  A Python float is modelled as an integer on a fixed grid:     *)
(* a vector component k stands for k/8, a float32 keeps only the even      *)
(* grid points (k/8 with k even), and a similarity score s stands for      *)
(* s/64 (a product of two components).                                     *)
(***************************************************************************)
EXTENDS Integers, Sequences, FiniteSets, TLC

VARIABLES
    \* ---- similarity store (SQLiteVectorStore) ----
    rows,        \* table chunks, in rowid order: seq of [id, doc_name, text, meta_json, embedding]
    lastWrite,   \* history: id -> the arguments of the last upsert of that id since the last reset
    spc,         \* "idle" | "returned": a store call has returned and its value is in sres
    sres,        \* the last store call and its return value
    \* ---- segmenter (chunk_text) ----
    ctext,       \* the text handed to chunk_text
    cmax,        \* max_chars
    cov,         \* overlap_chars
    cout,        \* the list of chunks the last call returned
    ccalls,      \* "none" | "once" | "twice": calls made on this input
    cprev,       \* the chunk ids the call before the last returned
    \* ---- orchestrator (RAGService) ----
    llm,         \* "none" | "configured": self._llm
    backend,     \* the replies the backend will give to its next calls, in call order
    req,         \* the request being served
    phase,       \* position in the handler
    di,          \* index of the document the loop is at
    chunks,      \* chunks retrieved for the current document
    gate,        \* result of _guardrail_context for the current document
    results,     \* screen: the ScreeningResult list; compare: per_resume_blocks
    output,      \* the value returned to the caller
    err,         \* class name of the exception the handler caught, "" when none
    log,         \* history: one entry per document (screen) or request handled
    path,        \* history: phases the current document / request went through
    calls,       \* history: the backend invocations of this request
    \* ---- two threads on one store (one shared sqlite3 connection) ----
    wpc,         \* writer thread: "idle" | "executing" (inside executemany) | "commit"
    wq,          \* the rows executemany has still to insert
    wbatch,      \* history: the entries of the upsert in progress
    wpre,        \* history: the table when the upsert in progress started
    rpc,         \* reader thread: "idle" | "returned"
    seen,        \* history: what the reader's last call saw, and the table before / after
    \* ---- embedder (LocalHashingEmbedder) ----
    etexts,      \* the texts handed to embed
    eout,        \* the vectors embed returned
    epc,         \* "ready" | "done"
    \* ---- the hard-split loop of chunk_text ----
    hsections,   \* sections
    hsi,         \* the position of the loop over the sections
    hparas,      \* paras
    hpi,         \* the position of the loop over the paragraphs
    hbuf,        \* buf
    hseq,        \* seq
    hchunks,     \* chunks
    hp,          \* the paragraph being hard-split
    hstart,      \* start
    hpc,         \* "idle" | "sections" | "paras" | "loop" | "done"
    \* ---- ingestion (RAGService.ingest_file) ----
    ilast,       \* history: doc_name -> the chunks its most recent ingest produced
    iop          \* history: the last ingest call and the table before it

storeVars == <<rows, lastWrite, spc, sres>>
chunkVars == <<ctext, cmax, cov, cout, ccalls, cprev>>
ragVars   == <<llm, backend, req, phase, di, chunks, gate, results, output, err, log, path, calls>>
concVars  == <<wpc, wq, wbatch, wpre, rpc, seen>>
embVars   == <<etexts, eout, epc>>
ingVars   == <<ilast, iop>>
splitVars == <<hsections, hsi, hparas, hpi, hbuf, hseq, hchunks, hp, hstart, hpc>>
auxVars   == <<concVars, embVars, ingVars, splitVars>>
vars      == <<rows, lastWrite, spc, sres, ctext, cmax, cov, cout, ccalls, cprev,
               llm, backend, req, phase, di, chunks, gate, results, output, err, log, path, calls,
               wpc, wq, wbatch, wpre, rpc, seen, etexts, eout, epc, ilast, iop,
               hsections, hsi, hparas, hpi, hbuf, hseq, hchunks, hp, hstart, hpc>>

\* ------------------------------------------------------------------ helpers

Min(a, b) == IF a <= b THEN a ELSE b
Max(a, b) == IF a >= b THEN a ELSE b

\* xs[:n] for n >= 0
Take(xs, n) == SubSeq(xs, 1, Min(n, Len(xs)))

\* sequences over S of length 0..n
SeqsUpTo(S, n) == UNION {[1..k -> S] : k \in 0..n}

Range(xs) == {xs[k] : k \in 1..Len(xs)}

\* ------------------------------------------------------------------ bounds

MaxBatch == 2
MaxTopK == 3
\* a top_k no table of the model reaches
TopKAll == 9

\* ------------------------------------------------------------------ store

\* A value absent from a dict (dict.get returns None).
Absent == "<absent>"

\* array("f", ...): a double stored as a 32-bit float keeps the nearest even
\* grid point, ties to the one whose mantissa is even.
ToF32(x) ==
    IF x % 2 = 0 THEN x
    ELSE IF (x - 1) % 4 = 0 THEN x - 1 ELSE x + 1

ToBlob(emb) == [k \in 1..Len(emb) |-> ToF32(emb[k])]

\* json.dumps / json.loads of the metadata dict
JsonDumps(meta) == [json |-> meta]
JsonLoads(meta_json) == meta_json.json

\* meta.get("doc_name") or meta.get("source") or "unknown"
MetaDocName(meta) ==
    IF meta.doc_name # Absent /\ meta.doc_name # "" THEN meta.doc_name
    ELSE IF meta.source # Absent /\ meta.source # "" THEN meta.source
    ELSE "unknown"

\* the row upsert builds for one zipped tuple
MakeRow(id, emb, doc, meta) ==
    [id |-> id, doc_name |-> MetaDocName(meta), text |-> doc,
     meta_json |-> JsonDumps(meta), embedding |-> ToBlob(emb)]

\* INSERT OR REPLACE of one row: a row with the same primary key is deleted
\* and the new row is appended with a fresh rowid.
InsertOrReplaceKeepOld(tbl, row) ==
    IF \E k \in 1..Len(tbl) : tbl[k].id = row.id THEN tbl ELSE Append(tbl, row)

InsertOrReplace(tbl, row) ==
    Append(SelectSeq(tbl, LAMBDA r : r.id # row.id), row)

\* len of zip(ids, embeddings, documents, metadatas)
ZipLen(ids, embs, docs, metas) == Min(Min(Len(ids), Len(embs)), Min(Len(docs), Len(metas)))

RECURSIVE ExecuteMany(_, _, _, _, _, _, _)
ExecuteMany(tbl, ids, embs, docs, metas, k, n) ==
    IF k > n THEN tbl
    ELSE ExecuteMany(InsertOrReplace(tbl, MakeRow(ids[k], embs[k], docs[k], metas[k])),
                     ids, embs, docs, metas, k + 1, n)

\* SQLiteVectorStore.upsert: the table after the call
UpsertRows(tbl, ids, embs, docs, metas) ==
    ExecuteMany(tbl, ids, embs, docs, metas, 1, ZipLen(ids, embs, docs, metas))

\* SQLiteVectorStore.reset: the table after the call
ResetRows(tbl) == << >>

\* Document names in ascending (string) order; ORDER BY compares by this rank.
DocOrder == <<"a.txt", "b.txt", "c.txt", "unknown">>
DocRank(d) == CHOOSE k \in 1..Len(DocOrder) : DocOrder[k] = d

RECURSIVE SortedNames(_)
SortedNames(S) ==
    IF S = {} THEN << >>
    ELSE LET m == CHOOSE x \in S : \A y \in S : DocRank(x) <= DocRank(y)
         IN <<m>> \o SortedNames(S \ {m})

\* SQLiteVectorStore.list_doc_names: SELECT DISTINCT doc_name ... ORDER BY doc_name
ListDocNames(tbl) == SortedNames({tbl[k].doc_name : k \in 1..Len(tbl)})

\* score += q[i] * emb[i] for i in range(min(len(q), len(emb)))
RECURSIVE DotPrefix(_, _, _)
DotPrefix(q, emb, n) ==
    IF n = 0 THEN 0 ELSE DotPrefix(q, emb, n - 1) + q[n] * emb[n]

\* 1.0 as a score
ScoreOne == 64

\* max(0.0, min(1.0, float(score)))
Clamp(s) == Max(0, Min(ScoreOne, s))

RowScore(q32, emb) == Clamp(DotPrefix(q32, emb, Min(Len(q32), Len(emb))))

\* scored.sort(key=lambda x: x[3], reverse=True): stable, equal scores keep scan order
RECURSIVE InsertDesc(_, _)
InsertDesc(sorted, x) ==
    IF sorted = << >> THEN <<x>>
    ELSE IF sorted[Len(sorted)].score >= x.score THEN Append(sorted, x)
    ELSE Append(InsertDesc(SubSeq(sorted, 1, Len(sorted) - 1), x), sorted[Len(sorted)])

RECURSIVE SortDesc(_)
SortDesc(xs) ==
    IF xs = << >> THEN << >>
    ELSE InsertDesc(SortDesc(SubSeq(xs, 1, Len(xs) - 1)), xs[Len(xs)])

\* the WHERE clause: where is None / {} (NoWhere) or {"doc_name": d}
NoWhere == [doc_name |-> Absent]

Candidates(tbl, where) ==
    IF where.doc_name # Absent
    THEN SelectSeq(tbl, LAMBDA r : r.doc_name = where.doc_name)
    ELSE tbl

\* SQLiteVectorStore.query: list of (id, text, meta, score)
QueryUnsorted(tbl, query_embedding, top_k, where) ==
    LET q32 == ToBlob(query_embedding)
        cand == Candidates(tbl, where)
        scored == [k \in 1..Len(cand) |->
                     [id |-> cand[k].id, text |-> cand[k].text,
                      meta |-> JsonLoads(cand[k].meta_json),
                      score |-> RowScore(q32, cand[k].embedding)]]
    IN Take(scored, top_k)

Query(tbl, query_embedding, top_k, where) ==
    LET q32 == ToBlob(query_embedding)
        cand == Candidates(tbl, where)
        scored == [k \in 1..Len(cand) |->
                     [id |-> cand[k].id, text |-> cand[k].text,
                      meta |-> JsonLoads(cand[k].meta_json),
                      score |-> RowScore(q32, cand[k].embedding)]]
    IN Take(SortDesc(scored), top_k)

\* ---- inputs of the store specification

StoreIds   == {"a.txt:0000", "a.txt:0001", "b.txt:0000"}
MetaA      == [doc_name |-> "a.txt", source |-> "a.txt", section |-> "BODY"]
MetaB      == [doc_name |-> Absent, source |-> "b.txt", section |-> "Skills"]
MetaNone   == [doc_name |-> Absent, source |-> Absent, section |-> "BODY"]
\* the (id, <<text, metadata, embedding>>) entries an upsert may carry: two
\* versions of each id that differ in text, metadata and vector
Writes     == {<<"a.txt:0000", <<"t1", MetaA, <<8, 0>> >> >>,
               <<"a.txt:0000", <<"t2", MetaNone, <<8, 5>> >> >>,
               <<"a.txt:0001", <<"t1", MetaA, <<8, 0>> >> >>,
               <<"a.txt:0001", <<"t2", MetaA, <<3, 5>> >> >>,
               <<"b.txt:0000", <<"t1", MetaB, <<-8, 8, 8>> >> >>,
               <<"b.txt:0000", <<"t2", MetaA, <<3, 5>> >> >>}
QueryEmbs  == {<<8, 1>>, <<8, 8, 8>>}
Wheres     == {NoWhere, [doc_name |-> "a.txt"], [doc_name |-> "b.txt"]}

NoResult == [op |-> "none"]

NoMeta  == [doc_name |-> Absent, source |-> Absent, section |-> Absent]
NoWrite == [written |-> FALSE, text |-> "", meta |-> NoMeta, emb |-> << >>]

InitStore ==
    /\ rows = << >>
    /\ lastWrite = [id \in StoreIds |-> NoWrite]
    /\ spc = "idle"
    /\ sres = NoResult

\* upsert(ids=..., embeddings=..., documents=..., metadatas=...)
Upsert ==
    /\ spc = "idle"
    /\ \E b \in SeqsUpTo(Writes, MaxBatch), extra \in SeqsUpTo(StoreIds, 1) :
         \* the four parallel lists; ids may be one longer than the others
         LET ids   == [k \in 1..Len(b) |-> b[k][1]] \o extra
             docs  == [k \in 1..Len(b) |-> b[k][2][1]]
             metas == [k \in 1..Len(b) |-> b[k][2][2]]
             embs  == [k \in 1..Len(b) |-> b[k][2][3]]
             n == ZipLen(ids, embs, docs, metas)
             last(id) == CHOOSE k \in 1..n : ids[k] = id /\ \A j \in (k + 1)..n : ids[j] # id
         IN /\ rows' = UpsertRows(rows, ids, embs, docs, metas)
            /\ lastWrite' = [id \in StoreIds |->
                               IF \E k \in 1..n : ids[k] = id
                               THEN [written |-> TRUE, text |-> docs[last(id)], meta |-> metas[last(id)],
                                     emb |-> embs[last(id)]]
                               ELSE lastWrite[id]]
            \* history: the call replaced a record that held other text, metadata and vector
            /\ sres' = [op |-> "upsert",
                        replaced |-> \E k \in 1..n :
                                        /\ lastWrite[ids[k]].written
                                        /\ lastWrite[ids[k]].text # docs[k]
                                        /\ lastWrite[ids[k]].meta # metas[k]
                                        /\ lastWrite[ids[k]].emb # embs[k]]
    /\ spc' = "returned"
    /\ UNCHANGED <<chunkVars, ragVars, auxVars>>

\* reset()
Reset ==
    /\ spc = "idle"
    /\ rows' = ResetRows(rows)
    /\ lastWrite' = [id \in StoreIds |-> NoWrite]
    /\ sres' = [op |-> "reset"]
    /\ spc' = "returned"
    /\ UNCHANGED <<chunkVars, ragVars, auxVars>>

\* list_doc_names()
ListDocs ==
    /\ spc = "idle"
    /\ sres' = [op |-> "list_doc_names", value |-> ListDocNames(rows)]
    /\ spc' = "returned"
    /\ UNCHANGED <<rows, lastWrite, chunkVars, ragVars, auxVars>>

\* query(query_embedding=..., top_k=..., where=...)
QueryStore ==
    /\ spc = "idle"
    /\ \E q \in QueryEmbs, k \in 0..MaxTopK, w \in Wheres :
         sres' = [op |-> "query", q |-> q, top_k |-> k, where |-> w,
                  value |-> Query(rows, q, k, w)]
    /\ spc' = "returned"
    /\ UNCHANGED <<rows, lastWrite, chunkVars, ragVars, auxVars>>

\* the caller takes the returned value; the store is ready for the next call
StoreReturn ==
    /\ spc = "returned"
    /\ spc' = "idle"
    /\ sres' = NoResult
    /\ UNCHANGED <<rows, lastWrite, chunkVars, ragVars, auxVars>>

NextStore == Upsert \/ Reset \/ ListDocs \/ QueryStore \/ StoreReturn

\* ------------------------------------------------- two threads on one store

\* The store has one sqlite3 connection opened with check_same_thread=False
\* and no lock of its own: every thread works on that connection, so a SELECT
\* reads the table as the statements executed so far have left it, committed
\* or not.  executemany runs its statement once per row and another thread may
\* run between two rows.  A SELECT with fetchall() is taken as one step.
\* The reader's return touches nothing shared, so it is taken before the
\* writer's next statement: every order of the statements is still there.

NoSeen == [op |-> "none", table |-> << >>, pre |-> << >>, post |-> << >>, value |-> << >>]

InitConcIdle ==
    /\ wpc = "idle"
    /\ wq = << >>
    /\ wbatch = << >>
    /\ wpre = << >>
    /\ rpc = "idle"
    /\ seen = NoSeen

\* upsert, lines 54-59: the rows list is built, executemany is entered
WriterBegin ==
    /\ wpc = "idle"
    /\ rpc = "idle"
    /\ \E b \in SeqsUpTo(Writes, MaxBatch) \ {<< >>} :
         LET rs == [k \in 1..Len(b) |-> MakeRow(b[k][1], b[k][2][3], b[k][2][1], b[k][2][2])]
         IN /\ wq' = rs
            /\ wbatch' = b
    /\ wpre' = rows
    /\ wpc' = "executing"
    /\ UNCHANGED <<rows, lastWrite, spc, sres, rpc, seen, chunkVars, ragVars, embVars, ingVars, splitVars>>

\* executemany: INSERT OR REPLACE of the next row
WriterStep ==
    /\ wpc = "executing"
    /\ rpc = "idle"
    /\ wq # << >>
    /\ rows' = InsertOrReplace(rows, Head(wq))
    /\ wq' = Tail(wq)
    /\ wpc' = IF Tail(wq) = << >> THEN "commit" ELSE "executing"
    /\ UNCHANGED <<lastWrite, spc, sres, wbatch, wpre, rpc, seen, chunkVars, ragVars, embVars, ingVars, splitVars>>

\* self._conn.commit(); upsert returns
WriterCommit ==
    /\ wpc = "commit"
    /\ rpc = "idle"
    /\ wpc' = "idle"
    /\ wbatch' = << >>
    /\ wpre' = << >>
    /\ UNCHANGED <<rows, lastWrite, spc, sres, wq, rpc, seen, chunkVars, ragVars, embVars, ingVars, splitVars>>

\* reset() on the writer thread: DELETE FROM chunks is one statement
WriterReset ==
    /\ wpc = "idle"
    /\ rpc = "idle"
    /\ rows # << >>
    /\ rows' = ResetRows(rows)
    /\ UNCHANGED <<lastWrite, spc, sres, wpc, wq, wbatch, wpre, rpc, seen, chunkVars, ragVars, embVars, ingVars, splitVars>>

\* the table before and after the upsert in progress (the table itself when none is)
TableBefore == IF wpc = "idle" THEN rows ELSE wpre
TableAfter ==
    IF wpc = "idle" THEN rows
    ELSE UpsertRows(wpre,
                    [k \in 1..Len(wbatch) |-> wbatch[k][1]],
                    [k \in 1..Len(wbatch) |-> wbatch[k][2][3]],
                    [k \in 1..Len(wbatch) |-> wbatch[k][2][1]],
                    [k \in 1..Len(wbatch) |-> wbatch[k][2][2]])

\* query(...) on the reader thread
ReaderQuery ==
    /\ rpc = "idle"
    /\ \E w \in Wheres :
         seen' = [op |-> "query", table |-> rows, pre |-> TableBefore, post |-> TableAfter,
                  value |-> Query(rows, <<8, 1>>, TopKAll, w)]
    /\ rpc' = "returned"
    /\ UNCHANGED <<storeVars, wpc, wq, wbatch, wpre, chunkVars, ragVars, embVars, ingVars, splitVars>>

\* list_doc_names() on the reader thread
ReaderList ==
    /\ rpc = "idle"
    /\ seen' = [op |-> "list_doc_names", table |-> rows, pre |-> TableBefore, post |-> TableAfter,
                value |-> ListDocNames(rows)]
    /\ rpc' = "returned"
    /\ UNCHANGED <<storeVars, wpc, wq, wbatch, wpre, chunkVars, ragVars, embVars, ingVars, splitVars>>

\* the reader's caller takes the value
ReaderReturn ==
    /\ rpc = "returned"
    /\ rpc' = "idle"
    /\ seen' = NoSeen
    /\ UNCHANGED <<storeVars, wpc, wq, wbatch, wpre, chunkVars, ragVars, embVars, ingVars, splitVars>>

NextConc ==
    \/ WriterBegin \/ WriterStep \/ WriterCommit \/ WriterReset
    \/ ReaderQuery \/ ReaderList \/ ReaderReturn

\* every row of a table is one whole write: the row upsert builds from one entry
WholeRows(tbl) ==
    \A k \in 1..Len(tbl) :
       \E wr \in Writes : tbl[k] = MakeRow(wr[1], wr[2][3], wr[2][1], wr[2][2])

\* C11: with upsert, reset, query and list_doc_names running concurrently on one
\* store, a reader sees the table as it was before or as it is after any
\* upsert, never a part of a batch, and never a record whose text, metadata
\* and vector come from different writes.
C11_ReadersSeePreOrPost ==
    rpc = "returned" =>
       /\ WholeRows(seen.table)
       /\ Range(seen.table) = Range(seen.pre) \/ Range(seen.table) = Range(seen.post)

\* ------------------------------------------------------------------ embedder

\* A text is a sequence of characters; "a" and "B" are token characters
\* ([a-z0-9+#.-], ignoring case) and " " is not.  A vector component is kept
\* in halves (a unigram adds 2, a bigram adds 1) and the normalised vector as
\* the pair r, n4: component i is r[i] / sqrt(n4), where n4 is four times the
\* square of the norm the code divides by.

Dim == 3
MaxEmbedLen == 5
MaxTexts == 2

EmbedAlphabet == {"a", "B", " "}

\* text.lower()
LowerChar(c) == IF c = "B" THEN "b" ELSE c
Lower(text) == [k \in 1..Len(text) |-> LowerChar(text[k])]

IsTokenChar(c) == c \in {"a", "b", "A", "B"}

\* _TOKEN_RE.findall(text): the maximal runs of token characters of length >= 2
RECURSIVE FindAll(_, _, _)
FindAll(text, k, run) ==
    IF k > Len(text) THEN (IF Len(run) >= 2 THEN <<run>> ELSE << >>)
    ELSE IF IsTokenChar(text[k]) THEN FindAll(text, k + 1, Append(run, text[k]))
    ELSE (IF Len(run) >= 2 THEN <<run>> ELSE << >>) \o FindAll(text, k + 1, << >>)

CharCode(c) == IF c = "a" THEN 1 ELSE IF c = "b" THEN 2 ELSE 3

RECURSIVE CodeSum(_, _)
CodeSum(str, k) == IF k > Len(str) THEN 0 ELSE CharCode(str[k]) * k + CodeSum(str, k + 1)

\* _hash_to_idx: a fixed function of the string into 0..dim-1 (an index 1..dim here)
HashToIdx(str, dim) == (CodeSum(str, 1) % dim) + 1

\* f"{tok}_{tokens[i+1]}"
Bigram(tok, nxt) == tok \o <<"_">> \o nxt

Bump(v, idx, by) == [v EXCEPT ![idx] = @ + by]

\* the loop over enumerate(tokens)
RECURSIVE Accumulate(_, _, _, _)
Accumulate(tokens, i, v, dim) ==
    IF i > Len(tokens) THEN v
    ELSE LET v1 == Bump(v, HashToIdx(tokens[i], dim), 2)
             v2 == IF i + 1 <= Len(tokens)
                   THEN Bump(v1, HashToIdx(Bigram(tokens[i], tokens[i + 1]), dim), 1)
                   ELSE v1
         IN Accumulate(tokens, i + 1, v2, dim)

RECURSIVE SumSquares(_)
SumSquares(v) == IF v = << >> THEN 0 ELSE v[1] * v[1] + SumSquares(Tail(v))

\* norm = math.sqrt(...) with nothing in place of a zero norm
NormSquaredUnguarded(v) == SumSquares(v)

\* norm = math.sqrt(sum(x * x for x in v)) or 1.0, as four times its square
NormSquared(v) == IF SumSquares(v) = 0 THEN 4 ELSE SumSquares(v)

\* LocalHashingEmbedder._embed_one
EmbedOne(text, dim) ==
    LET v == Accumulate(FindAll(Lower(text), 1, << >>), 1, [j \in 1..dim |-> 0], dim)
    IN [r |-> v, n4 |-> NormSquared(v)]

\* LocalHashingEmbedder.embed
Embed(texts, dim) == [k \in 1..Len(texts) |-> EmbedOne(texts[k], dim)]

\* the texts that may follow the first one in a call
MoreTexts == {<<"a">>, <<"a", "B", " ", "B", "a">>}

InitEmbedIdle ==
    /\ etexts = << >>
    /\ eout = << >>
    /\ epc = "ready"

InitEmbedInput ==
    /\ \E t \in SeqsUpTo(EmbedAlphabet, MaxEmbedLen), more \in SeqsUpTo(MoreTexts, MaxTexts - 1) :
         etexts \in {<< >>, <<t>> \o more}
    /\ eout = << >>
    /\ epc = "ready"

\* embed(texts) is called and returns
EmbedCall ==
    /\ epc = "ready"
    /\ eout' = Embed(etexts, Dim)
    /\ epc' = "done"
    /\ UNCHANGED <<etexts, storeVars, chunkVars, ragVars, concVars, ingVars, splitVars>>

NextEmbed == EmbedCall

\* ---- embedder claims

HasToken(text) == \E k \in 1..(Len(text) - 1) : IsTokenChar(text[k]) /\ IsTokenChar(text[k + 1])

TokensOf(text) == FindAll(Lower(text), 1, << >>)

\* what the buckets must hold, in halves: 1.0 per token, 0.5 per adjacent pair
ExpectedBucket(text, j) ==
    LET toks == TokensOf(text)
    IN 2 * Cardinality({i \in 1..Len(toks) : HashToIdx(toks[i], Dim) = j})
       + Cardinality({i \in 1..(Len(toks) - 1) :
                        HashToIdx(Bigram(toks[i], toks[i + 1]), Dim) = j})

\* C12: embed returns one vector per text, in order; each has Dim components,
\* none negative; its norm is 1 when the text has a token and it is all zero,
\* with no division by zero, when it has none; before normalisation bucket
\* h(t) holds 1.0 per token t and bucket h(t_i + '_' + t_i+1) 0.5 per pair.
C12_EmbedVectors ==
    epc = "done" =>
       /\ Len(eout) = Len(etexts)
       /\ \A k \in 1..Len(etexts) :
             /\ eout[k] = EmbedOne(etexts[k], Dim)
             /\ Len(eout[k].r) = Dim
             /\ eout[k].n4 > 0
             /\ \A j \in 1..Dim : eout[k].r[j] >= 0
             /\ \A j \in 1..Dim : eout[k].r[j] = ExpectedBucket(etexts[k], j)
             /\ HasToken(etexts[k]) => SumSquares(eout[k].r) = eout[k].n4
             /\ ~HasToken(etexts[k]) => \A j \in 1..Dim : eout[k].r[j] = 0

\* one call embedded a text with two tokens, whose bigram met a token in one
\* bucket, and a text without any token
C12_Witness ==
    /\ epc = "done"
    /\ Len(etexts) = 2
    /\ Len(TokensOf(etexts[1])) = 2
    /\ \E j \in 1..Dim : eout[1].r[j] >= 3
    /\ ~HasToken(etexts[2])
    /\ Len(etexts[2]) > 0
    /\ SumSquares(eout[2].r) = 0

\* ------------------------------------------------------------------ store claims

\* indices of the rows holding id
RowsOf(id) == {k \in 1..Len(rows) : rows[k].id = id}

\* C6: after any sequence of upserts and resets the table holds exactly one
\* row per id written since the last reset, carrying the text, the metadata,
\* the doc_name and the (float32-encoded) vector of the last upsert of that id;
\* list_doc_names returns exactly the distinct doc_names of those rows,
\* ascending, hence the empty sequence when nothing was written since a reset.
C6_StoreHoldsLastWrites ==
    /\ \A k \in 1..Len(rows) : rows[k].id \in StoreIds
    /\ \A id \in StoreIds :
         IF lastWrite[id].written
         THEN /\ Cardinality(RowsOf(id)) = 1
              /\ \A k \in RowsOf(id) :
                   /\ rows[k].text = lastWrite[id].text
                   /\ JsonLoads(rows[k].meta_json) = lastWrite[id].meta
                   /\ rows[k].doc_name = MetaDocName(lastWrite[id].meta)
                   /\ rows[k].embedding = [j \in 1..Len(lastWrite[id].emb) |->
                                             ToF32(lastWrite[id].emb[j])]
         ELSE RowsOf(id) = {}
    /\ (spc = "returned" /\ sres.op = "list_doc_names") =>
         /\ Range(sres.value) =
              {MetaDocName(lastWrite[id].meta) : id \in {x \in StoreIds : lastWrite[x].written}}
         /\ \A j \in 1..(Len(sres.value) - 1) :
              DocRank(sres.value[j]) < DocRank(sres.value[j + 1])
    /\ (spc = "returned" /\ sres.op = "reset") => rows = << >>

\* an upsert has just replaced a record whose text, metadata and vector all
\* differed, in a table that holds another record and lacks a third id
C6_Witness ==
    /\ spc = "returned" /\ sres.op = "upsert" /\ sres.replaced
    /\ Len(rows) = 2
    /\ \E id \in StoreIds : ~lastWrite[id].written

\* the rows a query may draw from
CandidateIdx(where) ==
    {k \in 1..Len(rows) : where.doc_name = Absent \/ rows[k].doc_name = where.doc_name}

\* C7: query returns min(top_k, number of candidates) results, each a distinct
\* candidate row with a score in [0,1]; the results are sorted non-increasing
\* by score, no candidate left out scores strictly higher than a returned
\* one, and with a filter no row of another doc_name is returned.
C7_QueryTopK ==
    (spc = "returned" /\ sres.op = "query") =>
      LET res  == sres.value
          cand == CandidateIdx(sres.where)
          q32  == [j \in 1..Len(sres.q) |-> ToF32(sres.q[j])]
          scoreOf(k) == RowScore(q32, rows[k].embedding)
          shown == {k \in cand : \E j \in 1..Len(res) : res[j].id = rows[k].id}
      IN /\ Len(res) = Min(sres.top_k, Cardinality(cand))
         /\ \A j \in 1..Len(res) :
              /\ res[j].score >= 0 /\ res[j].score <= ScoreOne
              /\ \E k \in cand : /\ rows[k].id = res[j].id
                                 /\ rows[k].text = res[j].text
                                 /\ scoreOf(k) = res[j].score
         /\ \A j1, j2 \in 1..Len(res) : j1 # j2 => res[j1].id # res[j2].id
         /\ \A j \in 1..(Len(res) - 1) : res[j].score >= res[j + 1].score
         /\ \A k \in cand \ shown : \A j \in 1..Len(res) : scoreOf(k) <= res[j].score
         /\ sres.where.doc_name # Absent =>
              \A j \in 1..Len(res) : \A k \in 1..Len(rows) :
                 rows[k].id = res[j].id => rows[k].doc_name = sres.where.doc_name

\* a filtered query kept the better of two candidates that were stored worse
\* first, left the other out, and a row of another document was in the table
C7_Witness ==
    /\ spc = "returned" /\ sres.op = "query"
    /\ sres.where.doc_name = "a.txt" /\ sres.top_k = 1
    /\ Len(sres.value) = 1
    /\ Len(rows) = 3
    /\ Cardinality(CandidateIdx(sres.where)) = 2
    /\ \E k \in CandidateIdx(sres.where) :
         /\ rows[k].id # sres.value[1].id
         /\ RowScore(ToBlob(sres.q), rows[k].embedding) < sres.value[1].score
         /\ \E k2 \in CandidateIdx(sres.where) : k2 > k /\ rows[k2].id = sres.value[1].id

\* ------------------------------------------------------------------ segmenter

\* A text is a sequence of characters.  "x" is an ordinary character and "H"
\* stands for one of the header keywords of _SECTION_RE (a line that is
\* exactly "H" is a section header).
NL == "\n"
Blanks == {" ", "\t"}
Whitespace == {" ", "\t", "\n", "\r"}

\* str.strip()
Strip(s) ==
    LET keep == {k \in 1..Len(s) : s[k] \notin Whitespace}
    IN IF keep = {} THEN << >>
       ELSE LET lo == CHOOSE k \in keep : \A j \in keep : k <= j
                hi == CHOOSE k \in keep : \A j \in keep : k >= j
            IN SubSeq(s, lo, hi)

\* s.replace("\r\n", "\n").replace("\r", "\n")
RECURSIVE FixLineEnds(_)
FixLineEnds(s) ==
    IF s = << >> THEN << >>
    ELSE IF Len(s) >= 2 /\ s[1] = "\r" /\ s[2] = NL THEN <<NL>> \o FixLineEnds(SubSeq(s, 3, Len(s)))
    ELSE IF s[1] = "\r" THEN <<NL>> \o FixLineEnds(Tail(s))
    ELSE <<s[1]>> \o FixLineEnds(Tail(s))

\* re.sub(r"[ \t]+", " ", s)
RECURSIVE CollapseBlanks(_)
CollapseBlanks(s) ==
    IF s = << >> THEN << >>
    ELSE IF s[1] \in Blanks
         THEN IF Len(s) >= 2 /\ s[2] \in Blanks THEN CollapseBlanks(Tail(s))
              ELSE <<" ">> \o CollapseBlanks(Tail(s))
    ELSE <<s[1]>> \o CollapseBlanks(Tail(s))

\* re.sub(r"\n{3,}", "\n\n", s)
RECURSIVE CollapseNewlines(_)
CollapseNewlines(s) ==
    IF s = << >> THEN << >>
    ELSE IF Len(s) >= 3 /\ s[1] = NL /\ s[2] = NL /\ s[3] = NL THEN CollapseNewlines(Tail(s))
    ELSE <<s[1]>> \o CollapseNewlines(Tail(s))

\* normalize_text
NormalizeText(s) == Strip(CollapseNewlines(CollapseBlanks(FixLineEnds(s))))

\* the first index at which sep occurs in s, 0 when it does not
FindSep(s, sep) ==
    LET hits == {k \in 1..(Len(s) - Len(sep) + 1) : SubSeq(s, k, k + Len(sep) - 1) = sep}
    IN IF hits = {} THEN 0 ELSE CHOOSE k \in hits : \A j \in hits : k <= j

\* str.split(sep)
RECURSIVE Split(_, _)
Split(s, sep) ==
    LET k == FindSep(s, sep)
    IN IF k = 0 THEN <<s>>
       ELSE <<SubSeq(s, 1, k - 1)>> \o Split(SubSeq(s, k + Len(sep), Len(s)), sep)

\* sep.join(parts)
RECURSIVE Join(_, _)
Join(parts, sep) ==
    IF parts = << >> THEN << >>
    ELSE IF Len(parts) = 1 THEN parts[1]
    ELSE parts[1] \o sep \o Join(Tail(parts), sep)

\* _SECTION_RE.match(ln)
IsHeader(ln) == Strip(ln) = <<"H">>

\* the walk over the lines in split_into_sections: (sections, current_title, current)
RECURSIVE SectionWalk(_, _, _, _, _)
SectionWalk(lines, k, sections, title, current) ==
    IF k > Len(lines)
    THEN IF current # << >> THEN Append(sections, [title |-> title, body |-> current]) ELSE sections
    ELSE LET ln == lines[k]
         IN IF ln = << >> THEN SectionWalk(lines, k + 1, sections, title, Append(current, << >>))
            ELSE IF IsHeader(ln)
            THEN SectionWalk(lines, k + 1,
                             IF current # << >>
                             THEN Append(sections, [title |-> title, body |-> current])
                             ELSE sections,
                             Strip(ln), << >>)
            ELSE SectionWalk(lines, k + 1, sections, title, Append(current, ln))

\* split_into_sections: list of (section_title, section_text)
SplitIntoSections(text) ==
    LET raw   == Split(text, <<NL>>)
        lines == [k \in 1..Len(raw) |-> Strip(raw[k])]
        secs  == SectionWalk(lines, 1, << >>, <<"B", "O", "D", "Y">>, << >>)
        texts == [k \in 1..Len(secs) |->
                    [title |-> secs[k].title, text |-> Strip(Join(secs[k].body, <<NL>>))]]
    IN SelectSeq(texts, LAMBDA t : t.text # << >>)

\* the decimal digits of n, most significant first
RECURSIVE Digits(_)
Digits(n) == IF n < 10 THEN <<n>> ELSE Append(Digits(n \div 10), n % 10)

\* f"{seq:04d}"
RECURSIVE PadLeft(_, _)
PadLeft(ds, width) == IF Len(ds) >= width THEN ds ELSE PadLeft(<<0>> \o ds, width)

IdWidth == 4

\* f"{doc_name}:{seq:04d}"
ChunkId(doc_name, seq) == [doc |-> doc_name, num |-> PadLeft(Digits(seq), IdWidth)]

\* Chunk(chunk_id=..., text=..., meta={"doc_name", "section", "seq"}); sidx is
\* history: the ordinal of the section the chunk was cut from.
MakeChunk(doc_name, seq, text, title, sidx) ==
    [chunk_id |-> ChunkId(doc_name, seq), text |-> text,
     meta |-> [doc_name |-> doc_name, section |-> title, seq |-> seq], sidx |-> sidx]

\* buf[-overlap_chars:] if overlap_chars > 0 else ""
OverlapTail(buf, overlap_chars) ==
    IF overlap_chars > 0 THEN SubSeq(buf, Max(1, Len(buf) - overlap_chars + 1), Len(buf))
    ELSE << >>

\* the hard-split loop: while start < len(p)
RECURSIVE HardSplit(_, _, _, _, _)
HardSplit(p, start, seq, acc, c) ==
    IF start >= Len(p) THEN [chunks |-> acc, seq |-> seq]
    ELSE LET piece == SubSeq(p, start + 1, Min(start + c.max_chars, Len(p)))
             step  == IF c.max_chars > c.overlap_chars THEN c.max_chars - c.overlap_chars
                      ELSE c.max_chars
         IN HardSplit(p, start + step, seq + 1,
                      Append(acc, MakeChunk(c.doc_name, seq, piece, c.title, c.sidx)), c)

\* the loop over the paragraphs of one section, then the final flush
RECURSIVE PackParas(_, _, _, _, _, _)
PackParas(paras, k, buf, seq, acc, c) ==
    IF k > Len(paras)
    THEN IF buf # << >>
         THEN [chunks |-> Append(acc, MakeChunk(c.doc_name, seq, buf, c.title, c.sidx)),
               seq |-> seq + 1]
         ELSE [chunks |-> acc, seq |-> seq]
    ELSE LET p == paras[k]
             candidate == IF buf # << >> THEN Strip(buf \o <<NL, NL>> \o p) ELSE p
         IN IF Len(candidate) <= c.max_chars
            THEN PackParas(paras, k + 1, candidate, seq, acc, c)
            ELSE IF buf # << >>
            THEN PackParas(paras, k + 1,
                           Strip(OverlapTail(buf, c.overlap_chars) \o <<NL, NL>> \o p),
                           seq + 1,
                           Append(acc, MakeChunk(c.doc_name, seq, buf, c.title, c.sidx)), c)
            ELSE LET h == HardSplit(p, 0, seq, acc, c)
                 IN PackParas(paras, k + 1, << >>, h.seq, h.chunks, c)

\* paras = [p.strip() for p in section_text.split("\n\n") if p.strip()]
Paragraphs(section_text) ==
    LET parts == Split(section_text, <<NL, NL>>)
        strip == [k \in 1..Len(parts) |-> Strip(parts[k])]
    IN SelectSeq(strip, LAMBDA p : p # << >>)

\* the loop over the sections; seq runs on from one section to the next
RECURSIVE ChunkSectionsRestart(_, _, _, _, _, _, _)
ChunkSectionsRestart(sections, k, seq, acc, doc_name, max_chars, overlap_chars) ==
    IF k > Len(sections) THEN acc
    ELSE LET r == PackParas(Paragraphs(sections[k].text), 1, << >>, 0, acc,
                            [doc_name |-> doc_name, title |-> sections[k].title, sidx |-> k,
                             max_chars |-> max_chars, overlap_chars |-> overlap_chars])
         IN ChunkSectionsRestart(sections, k + 1, r.seq, r.chunks, doc_name, max_chars, overlap_chars)

RECURSIVE ChunkSections(_, _, _, _, _, _, _)
ChunkSections(sections, k, seq, acc, doc_name, max_chars, overlap_chars) ==
    IF k > Len(sections) THEN acc
    ELSE LET r == PackParas(Paragraphs(sections[k].text), 1, << >>, seq, acc,
                            [doc_name |-> doc_name, title |-> sections[k].title, sidx |-> k,
                             max_chars |-> max_chars, overlap_chars |-> overlap_chars])
         IN ChunkSections(sections, k + 1, r.seq, r.chunks, doc_name, max_chars, overlap_chars)

\* chunk_text(text, doc_name=..., max_chars=..., overlap_chars=...)
ChunkText(text, doc_name, max_chars, overlap_chars) ==
    LET norm == NormalizeText(text)
        secs == SplitIntoSections(norm)
        sections == IF secs = << >> THEN <<[title |-> <<"B", "O", "D", "Y">>, text |-> norm]>>
                    ELSE secs
    IN ChunkSections(sections, 1, 0, << >>, doc_name, max_chars, overlap_chars)

\* ---- inputs of the segmenter specification

MaxTextLen == 5
MaxChars == 3
MaxOverlap == 2

Alphabet == {"x", " ", NL, "H"}

\* "Skills\nGo, Rust\n\nExperience\nBuilt a scheduler." in the model's alphabet,
\* and texts with the line ends and blanks normalize_text rewrites
SampleTexts == {<<"H", NL, "x", "x", NL, NL, "H", NL, "x">>,
                <<"x", "\r", NL, "\t", " ", "x", NL, NL, NL, "\r", "H", " ", NL, "x">>}

DocName == "a.txt"

ChunkIds(cs) == [k \in 1..Len(cs) |-> cs[k].chunk_id]

InitChunk ==
    /\ ctext \in SeqsUpTo(Alphabet, MaxTextLen) \cup SampleTexts
    /\ cmax \in 1..MaxChars
    /\ cov \in 0..MaxOverlap
    /\ cout = << >>
    /\ ccalls = "none"
    /\ cprev = << >>

\* chunks = chunk_text(ctext, doc_name=DocName, max_chars=cmax, overlap_chars=cov)
Segment ==
    /\ ccalls = "none"
    /\ cout' = ChunkText(ctext, DocName, cmax, cov)
    /\ ccalls' = "once"
    /\ UNCHANGED <<ctext, cmax, cov, cprev, storeVars, ragVars, auxVars>>

\* the same call again (re-ingesting the same document)
SegmentAgain ==
    /\ ccalls = "once"
    /\ cprev' = ChunkIds(cout)
    /\ cout' = ChunkText(ctext, DocName, cmax, cov)
    /\ ccalls' = "twice"
    /\ UNCHANGED <<ctext, cmax, cov, storeVars, ragVars, auxVars>>

NextChunk == Segment \/ SegmentAgain

\* ------------------------------------------------------------------ segmenter claims

\* C8: every chunk chunk_text emits has at most max_chars characters.
C8_ChunksBounded ==
    ccalls # "none" => \A k \in 1..Len(cout) : Len(cout[k].text) <= cmax

\* the number a digit string denotes
RECURSIVE DigitsValue(_)
DigitsValue(ds) ==
    IF ds = << >> THEN 0 ELSE 10 * DigitsValue(SubSeq(ds, 1, Len(ds) - 1)) + ds[Len(ds)]

TwoSectionText == <<"H", NL, "x", "x", NL, NL, "H", NL, "x">>

\* C9: the chunks of one call carry the sequence numbers 0, 1, ..., n-1 in
\* emission order, counted on across the sections in document order; each
\* chunk has one section; its id is doc_name, a colon and the sequence number
\* zero-padded to four digits; ids are pairwise distinct; the same call again
\* yields the same ids; the two-section document yields exactly two chunks,
\* :0000 and :0001, one per section.
C9_SequentialIds ==
    ccalls # "none" =>
      /\ \A k \in 1..Len(cout) :
           /\ cout[k].meta.seq = k - 1
           /\ cout[k].chunk_id.doc = DocName
           /\ Len(cout[k].chunk_id.num) = 4
           /\ \A j \in 1..4 : cout[k].chunk_id.num[j] \in 0..9
           /\ DigitsValue(cout[k].chunk_id.num) = k - 1
           /\ cout[k].meta.doc_name = DocName
           /\ cout[k].sidx >= 1
      /\ \A k \in 1..(Len(cout) - 1) : cout[k].sidx <= cout[k + 1].sidx
      /\ \A j, k \in 1..Len(cout) : j # k => cout[j].chunk_id # cout[k].chunk_id
      /\ ccalls = "twice" => ChunkIds(cout) = cprev
      /\ (ctext = TwoSectionText /\ cmax = MaxChars) =>
           /\ Len(cout) = 2
           /\ cout[1].chunk_id.num = <<0, 0, 0, 0>> /\ cout[1].sidx = 1
           /\ cout[2].chunk_id.num = <<0, 0, 0, 1>> /\ cout[2].sidx = 2

\* a second call on a text whose first section gave several chunks, so that
\* its second section starts at a sequence number above 1
C9_Witness ==
    /\ ccalls = "twice"
    /\ Len(cout) >= 3
    /\ cout[1].sidx = 1 /\ cout[2].sidx = 1
    /\ cout[Len(cout)].sidx = 2

\* ------------------------------------------------------------------ orchestrator

\* RAGConfig.top_k and RAGConfig.min_relevance_score (0.25 as a score)
TopK == 6
MinRelevanceScore == 16

\* a reason string; the empty string is the record of kind ""
NoReason == [kind |-> "", best |-> 0, thr |-> 0, cls |-> ""]
NoGate == [ok |-> FALSE, reason |-> NoReason]
NoRequest == [op |-> "none", query |-> "", docs |-> << >>, outages |-> << >>]
NoOutput == [kind |-> "none", reason |-> NoReason, body |-> << >>, bullets |-> << >>,
             blocks |-> << >>, results |-> << >>]

\* f"{x:.2f}" of a score: hundredths, ties to even
Fmt2(x) ==
    LET n == 25 * x
        q == n \div 16
        r == n % 16
    IN IF r < 8 THEN q
       ELSE IF r > 8 THEN q + 1
       ELSE IF q % 2 = 0 THEN q ELSE q + 1

\* self._embedder.embed([query])[0] for the queries of the model
EmbedQuery(query) == IF query = "q1" THEN <<6, 2>> ELSE <<0, 8>>

\* RAGService._retrieve
Retrieve(tbl, query, where) ==
    LET res == Query(tbl, EmbedQuery(query), TopK, where)
    IN [k \in 1..Len(res) |->
          [doc_name |-> IF res[k].meta.doc_name # Absent THEN res[k].meta.doc_name ELSE "unknown",
           chunk_id |-> res[k].id, text |-> res[k].text, score |-> res[k].score]]

\* max(c.score for c in chunks)
BestScore(cs) == CHOOSE m \in {cs[k].score : k \in 1..Len(cs)} : \A k \in 1..Len(cs) : cs[k].score <= m

\* RAGService._guardrail_context
GuardrailContextStrict(cs, min_relevance_score) ==
    IF cs = << >> THEN [ok |-> FALSE, reason |-> [NoReason EXCEPT !.kind = "No relevant context retrieved."]]
    ELSE IF BestScore(cs) <= min_relevance_score
    THEN [ok |-> FALSE,
          reason |-> [kind |-> "Low retrieval confidence", best |-> Fmt2(BestScore(cs)),
                      thr |-> Fmt2(min_relevance_score), cls |-> ""]]
    ELSE [ok |-> TRUE, reason |-> NoReason]

GuardrailContext(cs, min_relevance_score) ==
    IF cs = << >> THEN [ok |-> FALSE, reason |-> [NoReason EXCEPT !.kind = "No relevant context retrieved."]]
    ELSE IF BestScore(cs) < min_relevance_score
    THEN [ok |-> FALSE,
          reason |-> [kind |-> "Low retrieval confidence", best |-> Fmt2(BestScore(cs)),
                      thr |-> Fmt2(min_relevance_score), cls |-> ""]]
    ELSE [ok |-> TRUE, reason |-> NoReason]

\* f"LLM error: {e.__class__.__name__}"
LLMErrorReason(cls) == [kind |-> "LLM error", best |-> 0, thr |-> 0, cls |-> cls]

\* text[:n].strip() of a stored text; upto = 0 for a string taken whole
Excerpt(text, n) == [of |-> text, upto |-> n]

\* 1.0 as a confidence: a mean of up to five scores is a multiple of 1/(64*60)
ConfOne == ScoreOne * 60
FitUnclearBelow == 1344
FitModerateBelow == 2112
DefaultConfidence == 1536
TopFive == 5
TopThree == 3
QuoteChars == 240
BulletChars == 220
ListCap == 8
CitationCap == 6
BlockCap == 6

RECURSIVE SumScores(_)
SumScores(cs) == IF cs = << >> THEN 0 ELSE cs[1].score + SumScores(Tail(cs))

\* Citation(source=doc_name, chunk_id=t.chunk_id, quote=t.text[:240].strip()) for t in top
TopCitations(doc_name, top) ==
    [k \in 1..Len(top) |->
       [source |-> doc_name, chunk_id |-> top[k].chunk_id, quote |-> Excerpt(top[k].text, QuoteChars)]]

FallbackText == "LLM is not configured or retrieval confidence is low."

\* RAGService._screen_fallback
ScreenFallbackMeanOfAll(doc_name, cs, reason) ==
    LET top  == cs
        conf == IF top # << >> THEN (SumScores(top) * 60) \div Len(top) ELSE 0
        overall == IF conf < FitUnclearBelow THEN "Unclear"
                   ELSE IF conf < FitModerateBelow THEN "Moderate" ELSE "Strong"
    IN [resume_name |-> doc_name,
        overall_fit |-> overall,
        confidence |-> Max(0, Min(ConfOne, conf)),
        summary |-> [text |-> FallbackText, reason |-> reason],
        strengths |-> <<"See cited excerpts for evidence; configure LLM for richer synthesis.">>,
        gaps |-> <<"Insufficient evidence to fully assess without stronger retrieval / LLM synthesis.">>,
        citations |-> TopCitations(doc_name, Take(top, TopThree))]

ScreenFallback(doc_name, cs, reason) ==
    LET top  == Take(cs, TopFive)
        conf == IF top # << >> THEN (SumScores(top) * 60) \div Len(top) ELSE 0
        overall == IF conf < FitUnclearBelow THEN "Unclear"
                   ELSE IF conf < FitModerateBelow THEN "Moderate" ELSE "Strong"
    IN [resume_name |-> doc_name,
        overall_fit |-> overall,
        confidence |-> Max(0, Min(ConfOne, conf)),
        summary |-> [text |-> FallbackText, reason |-> reason],
        strengths |-> <<"See cited excerpts for evidence; configure LLM for richer synthesis.">>,
        gaps |-> <<"Insufficient evidence to fully assess without stronger retrieval / LLM synthesis.">>,
        citations |-> TopCitations(doc_name, Take(top, TopThree))]

\* ---- the generation backend

\* OverallFit = Literal["Strong", "Moderate", "Weak", "Unclear"]
OverallFit == {"Strong", "Moderate", "Weak", "Unclear"}

\* The replies a backend may give to complete_json.  A reply either raises
\* (the backend is out) or carries the text the model wrote: JSON (its keys
\* in has) or not JSON.
\* A citation refers to the chunk at a position of the context it was shown
\* (ref > 0) or to an id that is not in the context (ref = 0).
JsonBase == [kind |-> "json", cls |-> "",
             has |-> {"overall_fit", "confidence", "summary", "strengths", "citations"},
             overall_fit |-> "Strong", confidence |-> 3456, summary |-> "fits",
             strengths |-> <<"s1">>, cites |-> << >>]
ReplyRaise      == [JsonBase EXCEPT !.kind = "raise", !.cls = "ConnectionError", !.has = {}]
ReplyNotJson    == [JsonBase EXCEPT !.kind = "text", !.has = {}]
ReplyCitesTop   == [JsonBase EXCEPT !.cites = <<[ref |-> 1, quote |-> "quoted"]>>]
ReplyCitesOther == [JsonBase EXCEPT !.cites = <<[ref |-> 0, quote |-> "quoted"]>>]
ReplyNoCites    == [JsonBase EXCEPT !.has = {"overall_fit", "confidence", "summary", "strengths"}]
ReplyBadFit     == [JsonBase EXCEPT !.overall_fit = "Great",
                                    !.cites = <<[ref |-> 1, quote |-> "quoted"]>>]
JsonReplies == {ReplyNotJson, ReplyCitesTop, ReplyCitesOther, ReplyNoCites, ReplyBadFit}

\* the reply to complete_markdown when the backend is up: a text
ReplyMd == [JsonBase EXCEPT !.kind = "text", !.has = {}, !.summary = "report"]
MdReplies == {ReplyMd}

\* what a call gets: the exception when the backend is out, else one of replies
RepliesTo(out, replies) == IF out THEN {ReplyRaise} ELSE replies

OtherId == "zz.txt:9999"

\* the citations list of the reply, chunk ids written out
WrittenCites(reply, cs) ==
    [k \in 1..Len(reply.cites) |->
       [chunk_id |-> IF reply.cites[k].ref >= 1 /\ reply.cites[k].ref <= Len(cs)
                     THEN cs[reply.cites[k].ref].chunk_id ELSE OtherId,
        quote |-> reply.cites[k].quote]]

\* OllamaLLM.complete_json: json.loads(text), or {"raw": text} when that fails
CompleteJson(reply, cs) ==
    IF reply.kind = "raise" THEN [raised |-> TRUE, cls |-> reply.cls, data |-> JsonBase, cites |-> << >>]
    ELSE IF reply.kind = "text"
    THEN [raised |-> FALSE, cls |-> "", data |-> [reply EXCEPT !.has = {"raw"}], cites |-> << >>]
    ELSE [raised |-> FALSE, cls |-> "", data |-> reply, cites |-> WrittenCites(reply, cs)]

\* RAGService._parse_screening_json; ScreeningResult(...) validates its fields
ParseScreeningJson(doc_name, data, cites, cs) ==
    LET given == IF "citations" \in data.has
                 THEN SelectSeq(cites, LAMBDA c : c.chunk_id # "" /\ c.quote # "")
                 ELSE << >>
        citations == IF given # << >>
                     THEN [k \in 1..Len(given) |->
                             [source |-> doc_name, chunk_id |-> given[k].chunk_id,
                              quote |-> Excerpt(given[k].quote, 0)]]
                     ELSE TopCitations(doc_name, Take(cs, TopThree))
        fit  == IF "overall_fit" \in data.has THEN data.overall_fit ELSE "Unclear"
        conf == IF "confidence" \in data.has THEN data.confidence ELSE DefaultConfidence
    IN IF fit \notin OverallFit \/ conf < 0 \/ conf > ConfOne
       THEN [raised |-> TRUE, cls |-> "ValidationError", result |-> ScreenFallback(doc_name, cs, NoReason)]
       ELSE [raised |-> FALSE, cls |-> "",
             result |-> [resume_name |-> doc_name,
                         overall_fit |-> fit,
                         confidence |-> conf,
                         summary |-> [text |-> IF "summary" \in data.has THEN data.summary ELSE "",
                                      reason |-> NoReason],
                         strengths |-> IF "strengths" \in data.has THEN Take(data.strengths, ListCap)
                                       ELSE << >>,
                         gaps |-> << >>,
                         citations |-> Take(citations, CitationCap)]]

\* ---- outputs

\* "- `{c.chunk_id}`: {c.text[:220].strip()}..." for c in chunks[:3]
Bullets(cs) ==
    LET top == Take(cs, TopThree)
    IN [k \in 1..Len(top) |-> [chunk_id |-> top[k].chunk_id, text |-> Excerpt(top[k].text, BulletChars)]]

\* "[{c.chunk_id} | score={c.score:.2f}]\n{c.text}" for c in chunks
Context(cs) ==
    [k \in 1..Len(cs) |-> [chunk_id |-> cs[k].chunk_id, score |-> Fmt2(cs[k].score),
                           text |-> cs[k].text, doc_name |-> cs[k].doc_name]]

\* the block compare_resumes appends for one document
CompareBlock(doc_name, cs, g) ==
    IF ~g.ok THEN [doc |-> doc_name, kind |-> "refusal", reason |-> g.reason, context |-> << >>]
    ELSE [doc |-> doc_name, kind |-> "context", reason |-> NoReason, context |-> Context(cs)]

\* per_resume_blocks[:6]
ReportBlocksFirstOnly(blocks) == Take(blocks, 1)

ReportBlocks(blocks) == Take(blocks, BlockCap)

\* if not self._llm or not ok: the state after the guardrail
GateBranchIgnoreGate(configured, ok) == IF ~configured THEN "FALLBACK" ELSE "GENERATING"

GateBranch(configured, ok) == IF ~configured \/ ~ok THEN "FALLBACK" ELSE "GENERATING"

\* where an exception raised inside the handler's try block goes
OnBackendErrorPropagate == "RAISED"

OnBackendError == "FALLBACK"

\* ---- inputs of the orchestrator specification

MaxDocs == 2

Queries  == {"q1", "q2"}
DocNames == {"a.txt", "b.txt"}

ChunkIdsOf(doc) ==
    IF doc = "a.txt"
    THEN <<"a.txt:0000", "a.txt:0001", "a.txt:0002", "a.txt:0003", "a.txt:0004", "a.txt:0005">>
    ELSE <<"b.txt:0000", "b.txt:0001", "b.txt:0002", "b.txt:0003", "b.txt:0004">>
ChunkTextsOf(doc) ==
    IF doc = "a.txt" THEN <<"a0", "a1", "a2", "a3", "a4", "a5">>
    ELSE <<"b0", "b1", "b2", "b3", "b4">>

\* the vectors of the chunks a document was ingested with
\* (against the query vector <<6, 2>> the last list of each document scores
\* 12, 16, 40, 16, 24, 16 and 24, 64, 16, 48, 24: the five best average 0.35 and 0.55)
EmbsOfA == {<<<<2, 0>>>>, <<<<2, 0>>, <<2, 2>>>>, <<<<2, 0>>, <<8, 0>>, <<8, 8>>, <<2, 2>>>>,
            <<<<2, 0>>, <<2, 2>>, <<6, 2>>, <<2, 2>>, <<4, 0>>, <<2, 2>>>>}
EmbsOfB == {<< >>, <<<<8, 0>>>>, <<<<2, 0>>>>,
            <<<<4, 0>>, <<8, 8>>, <<2, 2>>, <<8, 0>>, <<4, 0>>>>}

\* RAGService.ingest_file: the table after ingesting doc with these vectors
IngestRows(tbl, doc, vecs) ==
    UpsertRows(tbl,
               Take(ChunkIdsOf(doc), Len(vecs)),
               vecs,
               Take(ChunkTextsOf(doc), Len(vecs)),
               [k \in 1..Len(vecs) |-> [doc_name |-> doc, source |-> doc, section |-> "BODY"]])

InitRag ==
    /\ \E va \in EmbsOfA, vb \in EmbsOfB :
         rows = IngestRows(IngestRows(<< >>, "a.txt", va), "b.txt", vb)
    /\ lastWrite = [id \in StoreIds |-> NoWrite]
    /\ spc = "idle"
    /\ sres = NoResult
    /\ llm \in {"none", "configured"}
    /\ backend = << >>
    /\ req = NoRequest
    /\ phase = "IDLE"
    /\ di = 0
    /\ chunks = << >>
    /\ gate = NoGate
    /\ results = << >>
    /\ output = NoOutput
    /\ err = ""
    /\ log = << >>
    /\ path = << >>
    /\ calls = << >>

DocLists == SeqsUpTo(DocNames, MaxDocs) \ {<< >>}

\* a request for one document more than a report prints blocks
LongDocs == [k \in 1..(BlockCap + 1) |-> IF k % 2 = 1 THEN "a.txt" ELSE "b.txt"]

\* the backend over the calls a request may make: TRUE where it is out
Outages(n) == IF llm = "none" THEN {<< >>} ELSE [1..n -> BOOLEAN]

Begin(r) ==
    /\ phase = "IDLE"
    /\ req' = r
    /\ backend' = r.outages
    /\ phase' = "RETRIEVING"
    /\ di' = IF r.op = "answer" THEN 0 ELSE 1
    /\ chunks' = << >>
    /\ gate' = NoGate
    /\ results' = << >>
    /\ output' = NoOutput
    /\ err' = ""
    /\ log' = << >>
    /\ path' = <<"RETRIEVING">>
    /\ calls' = << >>
    /\ UNCHANGED <<llm, storeVars, chunkVars, auxVars>>

\* answer_question(question) is called
StartAnswer ==
    \E q \in Queries, out \in Outages(1) :
       Begin([op |-> "answer", query |-> q, docs |-> << >>, outages |-> out])

\* screen_resumes(job_desc=..., resume_doc_names=...) is called
StartScreen ==
    \E q \in Queries, ds \in DocLists :
       \E out \in Outages(Len(ds)) :
          Begin([op |-> "screen", query |-> q, docs |-> ds, outages |-> out])

\* compare_resumes(job_desc=..., resume_doc_names=...) is called
StartCompare ==
    \E q \in Queries, ds \in DocLists \cup {LongDocs} :
       \E out \in Outages(Min(Len(ds), MaxDocs)) :
          Begin([op |-> "compare", query |-> q, docs |-> ds, outages |-> out])

CurrentWhere == IF req.op = "answer" THEN NoWhere ELSE [doc_name |-> req.docs[di]]
CurrentDoc   == IF req.op = "answer" THEN "" ELSE req.docs[di]

\* chunks = self._retrieve(...)
DoRetrieve ==
    /\ phase = "RETRIEVING"
    /\ chunks' = Retrieve(rows, req.query, CurrentWhere)
    /\ phase' = "GATING"
    /\ path' = Append(path, "GATING")
    /\ UNCHANGED <<llm, backend, req, di, gate, results, output, err, log, calls,
                   storeVars, chunkVars, auxVars>>

\* ok, reason = self._guardrail_context(chunks), and the branch on it, in answer and screen
DoGate ==
    /\ phase = "GATING"
    /\ req.op \in {"answer", "screen"}
    /\ LET g == GuardrailContext(chunks, MinRelevanceScore)
           to == GateBranch(llm # "none", g.ok)
       IN /\ gate' = g
          /\ phase' = to
          /\ path' = Append(path, to)
    /\ UNCHANGED <<llm, backend, req, di, chunks, results, output, err, log, calls,
                   storeVars, chunkVars, auxVars>>

\* compare_resumes: the guardrail and the block of one document, then the
\* next document or, after the last, the single generation step
DoGateCompare ==
    /\ phase = "GATING"
    /\ req.op = "compare"
    /\ LET g == GuardrailContext(chunks, MinRelevanceScore)
           to == IF di < Len(req.docs) THEN "RETRIEVING"
                 ELSE IF llm = "none" THEN "FALLBACK" ELSE "GENERATING"
       IN /\ gate' = g
          /\ results' = Append(results, CompareBlock(req.docs[di], chunks, g))
          /\ log' = Append(log, [doc |-> req.docs[di], chunks |-> chunks, gate |-> g,
                                 path |-> path, called |-> FALSE, reply |-> JsonBase])
          /\ di' = IF di < Len(req.docs) THEN di + 1 ELSE di
          /\ phase' = to
          /\ path' = IF to = "RETRIEVING" THEN <<"RETRIEVING">> ELSE <<to>>
    /\ UNCHANGED <<llm, backend, req, chunks, output, err, calls, storeVars, chunkVars, auxVars>>

\* answer = self._llm.complete_markdown(system=ANSWER_SYSTEM, user=user)
GenerateAnswer ==
    /\ phase = "GENERATING"
    /\ req.op = "answer"
    /\ \E reply \in RepliesTo(Head(backend), MdReplies) :
       LET to == IF reply.kind = "raise" THEN OnBackendError ELSE "DONE"
       IN /\ calls' = Append(calls, [context |-> Context(chunks), blocks |-> << >>, reply |-> reply])
          /\ backend' = Tail(backend)
          /\ err' = IF reply.kind = "raise" THEN reply.cls ELSE ""
          /\ output' = IF reply.kind = "raise" THEN output
                       ELSE [NoOutput EXCEPT !.kind = "answer", !.body = <<reply.summary>>]
          /\ phase' = to
          /\ path' = Append(path, to)
    /\ UNCHANGED <<llm, req, di, chunks, gate, results, log, storeVars, chunkVars, auxVars>>

\* data = self._llm.complete_json(...); sr = self._parse_screening_json(...); results.append(sr)
GenerateScreen ==
    /\ phase = "GENERATING"
    /\ req.op = "screen"
    /\ \E reply \in RepliesTo(Head(backend), JsonReplies) :
       LET got == CompleteJson(reply, chunks)
           sr  == ParseScreeningJson(req.docs[di], got.data, got.cites, chunks)
           bad == got.raised \/ sr.raised
           to  == IF bad THEN OnBackendError ELSE "DONE"
       IN /\ calls' = Append(calls, [context |-> Context(chunks), blocks |-> << >>, reply |-> reply])
          /\ backend' = Tail(backend)
          /\ err' = IF got.raised THEN got.cls ELSE IF sr.raised THEN sr.cls ELSE ""
          /\ results' = IF bad THEN results ELSE Append(results, sr.result)
          /\ phase' = to
          /\ path' = Append(path, to)
    /\ UNCHANGED <<llm, req, di, chunks, gate, output, log, storeVars, chunkVars, auxVars>>

\* return self._llm.complete_markdown(system=COMPARE_SYSTEM, user=user)
GenerateCompare ==
    /\ phase = "GENERATING"
    /\ req.op = "compare"
    /\ \E reply \in RepliesTo(Head(backend), MdReplies) :
       LET to == IF reply.kind = "raise" THEN OnBackendError ELSE "DONE"
       IN /\ calls' = Append(calls, [context |-> << >>, blocks |-> results, reply |-> reply])
          /\ backend' = Tail(backend)
          /\ err' = IF reply.kind = "raise" THEN reply.cls ELSE ""
          /\ output' = IF reply.kind = "raise" THEN output
                       ELSE [NoOutput EXCEPT !.kind = "backend", !.body = <<reply.summary>>]
          /\ phase' = to
          /\ path' = Append(path, to)
    /\ UNCHANGED <<llm, req, di, chunks, gate, results, log, storeVars, chunkVars, auxVars>>

\* answer_question: the refusal, the no-LLM excerpts or the excerpts after a backend error
FallbackAnswer ==
    /\ phase = "FALLBACK"
    /\ req.op = "answer"
    /\ output' = IF ~gate.ok
                 THEN [NoOutput EXCEPT !.kind = "refusal", !.reason = gate.reason]
                 ELSE IF llm = "none"
                 THEN [NoOutput EXCEPT !.kind = "excerpts: LLM is not configured", !.bullets = Bullets(chunks)]
                 ELSE [NoOutput EXCEPT !.kind = "excerpts: LLM is currently unavailable",
                                       !.bullets = Bullets(chunks)]
    /\ phase' = "DONE"
    /\ path' = Append(path, "DONE")
    /\ UNCHANGED <<llm, backend, req, di, chunks, gate, results, err, log, calls,
                   storeVars, chunkVars, auxVars>>

\* screen_resumes: results.append(self._screen_fallback(doc_name, job_desc, chunks, reason))
FallbackScreen ==
    /\ phase = "FALLBACK"
    /\ req.op = "screen"
    /\ results' = Append(results,
                         ScreenFallback(req.docs[di], chunks,
                                        IF err # "" THEN LLMErrorReason(err) ELSE gate.reason))
    /\ phase' = "DONE"
    /\ path' = Append(path, "DONE")
    /\ UNCHANGED <<llm, backend, req, di, chunks, gate, output, err, log, calls,
                   storeVars, chunkVars, auxVars>>

\* compare_resumes: the report without a backend or after a backend error
FallbackCompare ==
    /\ phase = "FALLBACK"
    /\ req.op = "compare"
    /\ output' = [NoOutput EXCEPT !.kind = IF llm = "none" THEN "evidence: LLM is not configured"
                                           ELSE "evidence: LLM is currently unavailable",
                                  !.blocks = ReportBlocks(results)]
    /\ phase' = "DONE"
    /\ path' = Append(path, "DONE")
    /\ UNCHANGED <<llm, backend, req, di, chunks, gate, results, err, log, calls,
                   storeVars, chunkVars, auxVars>>

LogEntry == [doc |-> CurrentDoc, chunks |-> chunks, gate |-> gate, path |-> path,
             called |-> \E k \in 1..Len(path) : path[k] = "GENERATING",
             reply |-> IF \E k \in 1..Len(path) : path[k] = "GENERATING"
                       THEN calls[Len(calls)].reply ELSE JsonBase]

\* screen_resumes: the loop goes on to the next doc_name
NextDoc ==
    /\ phase = "DONE"
    /\ req.op = "screen"
    /\ di < Len(req.docs)
    /\ log' = Append(log, LogEntry)
    /\ di' = di + 1
    /\ err' = ""
    /\ gate' = NoGate
    /\ chunks' = << >>
    /\ phase' = "RETRIEVING"
    /\ path' = <<"RETRIEVING">>
    /\ UNCHANGED <<llm, backend, req, results, output, calls, storeVars, chunkVars, auxVars>>

\* the handler returns to its caller
Return ==
    /\ phase = "DONE"
    /\ req.op = "screen" => di = Len(req.docs)
    /\ log' = IF req.op = "compare" THEN log ELSE Append(log, LogEntry)
    /\ output' = IF req.op = "screen" THEN [NoOutput EXCEPT !.kind = "results", !.results = results]
                 ELSE output
    /\ phase' = "RETURNED"
    /\ UNCHANGED <<llm, backend, req, di, chunks, gate, results, err, path, calls,
                   storeVars, chunkVars, auxVars>>

\* the caller has the value; the service waits for the next request
Finish ==
    /\ phase = "RETURNED"
    /\ phase' = "IDLE"
    /\ req' = NoRequest
    /\ backend' = << >>
    /\ di' = 0
    /\ chunks' = << >>
    /\ gate' = NoGate
    /\ results' = << >>
    /\ output' = NoOutput
    /\ err' = ""
    /\ log' = << >>
    /\ path' = << >>
    /\ calls' = << >>
    /\ UNCHANGED <<llm, storeVars, chunkVars, auxVars>>

Next ==
    \/ StartAnswer \/ StartScreen \/ StartCompare
    \/ DoRetrieve \/ DoGate \/ DoGateCompare
    \/ GenerateAnswer \/ GenerateScreen \/ GenerateCompare
    \/ FallbackAnswer \/ FallbackScreen \/ FallbackCompare
    \/ NextDoc \/ Return \/ Finish

\* ---------------------------------------------------------- orchestrator claims

Returned(op) == phase = "RETURNED" /\ req.op = op

IdsOf(cs) == {cs[j].chunk_id : j \in 1..Len(cs)}

ErrorClasses == {"ConnectionError", "ValidationError"}

\* C1: every citation of every ScreeningResult returned by screen names the id
\* of a chunk retrieved for that document in that call.
C1_CitationsFromRetrieved ==
    Returned("screen") =>
       \A k \in 1..Len(output.results) :
          \A j \in 1..Len(output.results[k].citations) :
             output.results[k].citations[j].chunk_id \in IdsOf(log[k].chunks)

Raised(k) == log[k].called /\ log[k].reply.kind = "raise"

\* C2: a backend that raises never reaches the caller: the handler never ends
\* in a raised state, the call returns fallback output, and screen returns one
\* result per requested doc_name, in request order, named after it.
C2_NoBackendFailureReachesCaller ==
    /\ phase \in {"IDLE", "RETRIEVING", "GATING", "GENERATING", "FALLBACK", "DONE", "RETURNED"}
    /\ Returned("screen") =>
          /\ Len(output.results) = Len(req.docs)
          /\ \A k \in 1..Len(req.docs) :
                /\ output.results[k].resume_name = req.docs[k]
                /\ Raised(k) =>
                      output.results[k] =
                         ScreenFallback(req.docs[k], log[k].chunks, LLMErrorReason(log[k].reply.cls))
    /\ (Returned("answer") /\ Raised(1)) =>
          /\ output.kind = "excerpts: LLM is currently unavailable"
          /\ output.bullets = Bullets(log[1].chunks)
    /\ (Returned("compare") /\ calls # << >> /\ calls[1].reply.kind = "raise") =>
          output.kind = "evidence: LLM is currently unavailable"

C2_Witness ==
    /\ Returned("screen")
    /\ Len(req.docs) = 2
    /\ Raised(1)
    /\ log[2].called /\ log[2].reply = ReplyCitesTop
    /\ Len(output.results) = 2
    /\ output.results[2].summary.text = "fits"

\* C3: a reply to the screening call that is not JSON yields the fallback
\* result for that document, as a backend error does.
C3_MalformedRoutesToFallback ==
    Returned("screen") =>
       \A k \in 1..Len(log) :
          (log[k].called /\ log[k].reply.kind = "text") =>
             \E cls \in ErrorClasses :
                output.results[k] = ScreenFallback(req.docs[k], log[k].chunks, LLMErrorReason(cls))

AllowedPaths ==
    {<<"RETRIEVING", "GATING", "GENERATING", "DONE">>,
     <<"RETRIEVING", "GATING", "FALLBACK", "DONE">>,
     <<"RETRIEVING", "GATING", "GENERATING", "FALLBACK", "DONE">>}

IsPrefix(xs, ys) == Len(xs) <= Len(ys) /\ \A k \in 1..Len(xs) : xs[k] = ys[k]

Called(k) == log[k].called

\* C4: in answer and screen a failed gate never reaches GENERATING: the backend
\* is not called for that request (document), the returned refusal (summary)
\* carries the gate's reason, and every path is one of the three allowed ones.
C4_GateFailureNeverGenerates ==
    req.op \in {"answer", "screen"} =>
       /\ phase # "RETURNED" => \E ap \in AllowedPaths : IsPrefix(path, ap)
       /\ path # << >> => path[Len(path)] = (IF phase = "RETURNED" THEN "DONE" ELSE phase)
       /\ (phase = "GENERATING" => gate.ok)
       /\ Len(calls) = Cardinality({k \in 1..Len(log) : Called(k)})
                       + (IF phase # "RETURNED" /\ \E j \in 1..Len(path) : path[j] = "GENERATING"
                             /\ phase # "GENERATING"
                          THEN 1 ELSE 0)
       /\ \A k \in 1..Len(log) :
             /\ log[k].path \in AllowedPaths
             /\ ~log[k].gate.ok =>
                   /\ ~Called(k)
                   /\ log[k].path = <<"RETRIEVING", "GATING", "FALLBACK", "DONE">>
                   /\ log[k].gate.reason.kind \in {"No relevant context retrieved.",
                                                  "Low retrieval confidence"}
                   /\ req.op = "screen" => results[k].summary.reason = log[k].gate.reason
                   /\ Returned("answer") =>
                         output.kind = "refusal" /\ output.reason = log[k].gate.reason

C4_Witness ==
    /\ Returned("screen")
    /\ llm = "configured"
    /\ Len(req.docs) = 2
    /\ ~log[1].gate.ok /\ log[1].gate.reason.kind = "Low retrieval confidence"
    /\ log[2].gate.ok /\ Called(2)
    /\ Len(calls) = 1

GatePasses(cs) == cs # << >> /\ BestScore(cs) >= MinRelevanceScore

\* C5: the guardrail fails exactly when nothing was retrieved or the best score
\* is strictly below min_relevance_score; a best score equal to the threshold
\* passes (in units of 1/100000: 24999 fails and 25000 passes against 25000).
C5_GuardrailThreshold ==
    /\ \A k \in 1..Len(log) : log[k].gate.ok <=> GatePasses(log[k].chunks)
    /\ phase \in {"GENERATING", "FALLBACK", "DONE"} => (gate.ok <=> GatePasses(chunks))
    /\ \A k \in 1..Len(log) :
          ~log[k].gate.ok =>
             log[k].gate.reason.kind = (IF log[k].chunks = << >> THEN "No relevant context retrieved."
                                        ELSE "Low retrieval confidence")
    /\ ~GuardrailContext(<<[score |-> 24999]>>, 25000).ok
    /\ GuardrailContext(<<[score |-> 25000]>>, 25000).ok

C5_Witness ==
    /\ phase = "GENERATING"
    /\ chunks # << >>
    /\ BestScore(chunks) = MinRelevanceScore
    /\ gate.ok

FallbackBlock(b) == b.kind \in {"refusal", "context"}

\* C10 as stated: during compare, when the backend raises on the 1st document and
\* succeeds on the 2nd, the output has a block for both documents, the 1st a
\* refusal/fallback block and the 2nd showing backend output.
C10_Original ==
    (Returned("compare") /\ Len(req.docs) = 2 /\ req.outages = <<TRUE, FALSE>>) =>
       /\ Len(output.blocks) = 2
       /\ FallbackBlock(output.blocks[1])
       /\ output.blocks[2].kind = "backend"

\* C10: compare calls the backend at most once, for all documents together, after
\* a block was built for each requested document; when that call raises, the
\* output still has one refusal/evidence block per document in request order
\* (for the first six documents) and no backend output; backend output
\* appears only when the call succeeds.
C10_CompareSingleCall ==
    Returned("compare") =>
       /\ Len(calls) = (IF llm = "none" THEN 0 ELSE 1)
       /\ \A c \in 1..Len(calls) :
             /\ Len(calls[c].blocks) = Len(req.docs)
             /\ \A k \in 1..Len(req.docs) : calls[c].blocks[k].doc = req.docs[k]
       /\ (calls # << >> /\ calls[1].reply.kind # "raise") =>
             output.kind = "backend" /\ output.body = <<calls[1].reply.summary>> /\ output.blocks = << >>
       /\ (calls = << >> \/ calls[1].reply.kind = "raise") =>
             /\ output.body = << >>
             /\ Len(output.blocks) = Min(Len(req.docs), BlockCap)
             /\ \A k \in 1..Len(output.blocks) :
                   /\ output.blocks[k].doc = req.docs[k]
                   /\ FallbackBlock(output.blocks[k])
                   /\ output.blocks[k].kind = "refusal" <=> ~log[k].gate.ok

C10_Witness ==
    /\ Returned("compare")
    /\ Len(req.docs) = 2
    /\ req.outages = <<TRUE, FALSE>>
    /\ calls # << >> /\ calls[1].reply.kind = "raise"
    /\ Len(output.blocks) = 2
    /\ output.blocks[1].kind = "context"

\* the block of document k is about that document only: its refusal reason and
\* no chunk text, or chunks of that document alone
BlockOf(b, k) ==
    /\ b.doc = req.docs[k]
    /\ b = CompareBlock(req.docs[k], log[k].chunks, log[k].gate)
    /\ b.kind = "refusal" => (~log[k].gate.ok /\ b.context = << >>)
    /\ \A j \in 1..Len(b.context) : b.context[j].doc_name = req.docs[k]

\* C13: in every output path of compare every requested document is
\* represented: the evidence handed to the backend and the evidence printed
\* in the no-backend and backend-failure reports hold one block per requested
\* document, in request order, each about that document only.
C13_EveryDocumentRepresented ==
    Returned("compare") =>
       /\ \A c \in 1..Len(calls) :
             /\ Len(calls[c].blocks) = Len(req.docs)
             /\ \A k \in 1..Len(req.docs) : BlockOf(calls[c].blocks[k], k)
       /\ output.kind # "backend" =>
             /\ Len(output.blocks) = Len(req.docs)
             /\ \A k \in 1..Len(req.docs) : BlockOf(output.blocks[k], k)

\* the document went through FALLBACK
FellBack(k) == \E j \in 1..Len(log[k].path) : log[k].path[j] = "FALLBACK"

\* C14: every fallback ScreeningResult has as confidence the mean score of the
\* first min(5, n) retrieved chunks (0 when none), within [0,1]; its label is
\* 'Unclear' when that mean is < 0.35, 'Moderate' when 0.35 <= mean < 0.55 and
\* 'Strong' when mean >= 0.55, never 'Weak'; its citations are the first
\* min(3, n) retrieved chunks in rank order.
C14_FallbackConfidence ==
    Returned("screen") =>
       \A k \in 1..Len(log) :
          FellBack(k) =>
             LET cs  == log[k].chunks
                 n   == Min(5, Len(cs))
                 sum == SumScores(SubSeq(cs, 1, n))
                 sr  == output.results[k]
                 \* mean < x/100, without dividing
                 below(x) == n = 0 \/ sum * 100 < x * ScoreOne * n
             IN /\ sr.confidence * n = sum * 60
                /\ n = 0 => sr.confidence = 0
                /\ sr.confidence >= 0 /\ sr.confidence <= ConfOne
                /\ sr.overall_fit = (IF below(35) THEN "Unclear"
                                     ELSE IF below(55) THEN "Moderate" ELSE "Strong")
                /\ sr.overall_fit # "Weak"
                /\ Len(sr.citations) = Min(3, Len(cs))
                /\ \A j \in 1..Len(sr.citations) :
                      /\ sr.citations[j].chunk_id = cs[j].chunk_id
                      /\ sr.citations[j].source = req.docs[k]
                      /\ sr.citations[j].quote = Excerpt(cs[j].text, QuoteChars)

\* a fallback after a backend error over six retrieved chunks whose five best
\* average exactly 0.35, and one over five chunks averaging exactly 0.55
C14_Witness ==
    /\ Returned("screen")
    /\ Len(log) = 2
    /\ FellBack(1) /\ log[1].called
    /\ Len(log[1].chunks) = 6
    /\ output.results[1].confidence = 1344
    /\ output.results[1].overall_fit = "Moderate"
    /\ FellBack(2)
    /\ Len(log[2].chunks) = 5
    /\ output.results[2].confidence = 2112
    /\ output.results[2].overall_fit = "Strong"

\* ------------------------------------------------------------------ ingestion

\* chunk_text's defaults max_chars=1200 and overlap_chars=150, scaled to the
\* texts of the model
IngestMaxChars == 3
IngestOverlap == 1

\* the vector the embedder gives a chunk, on the store's grid: a unit vector
\* when the chunk has a token (two adjacent word characters), else zero
IngestVec(text) ==
    IF \E k \in 1..(Len(text) - 1) : text[k] \notin Whitespace /\ text[k + 1] \notin Whitespace
    THEN <<8, 0>> ELSE <<0, 0>>

\* m = dict(c.meta); m.update({"doc_name": ..., "source": ..., **doc.meta})
IngestMeta(c, doc) ==
    [doc_name |-> doc, source |-> doc, section |-> c.meta.section, seq |-> c.meta.seq,
     type |-> "txt"]

\* RAGService.ingest_file: the table after ingesting the file doc holding text
IngestFile(tbl, doc, text) ==
    LET cs == ChunkText(text, doc, IngestMaxChars, IngestOverlap)
    IN UpsertRows(tbl,
                  [k \in 1..Len(cs) |-> cs[k].chunk_id],
                  [k \in 1..Len(cs) |-> IngestVec(cs[k].text)],
                  [k \in 1..Len(cs) |-> cs[k].text],
                  [k \in 1..Len(cs) |-> IngestMeta(cs[k], doc)])

\* the versions of a file: empty, one paragraph, three paragraphs, two sections
IngestTexts == {<< >>,
                <<"x", "x">>,
                <<"x", "x", NL, NL, "x", "x", NL, NL, "x", "x">>,
                <<"H", NL, "x", "x", NL, NL, "H", NL, "x">>}

NoIngest == [op |-> "none", doc |-> "", same |-> FALSE, fewer |-> FALSE, before |-> << >>]

InitIngestIdle ==
    /\ ilast = [d \in DocNames |-> [done |-> FALSE, text |-> << >>, chunks |-> << >>]]
    /\ iop = NoIngest

\* ingest_file(path) for a file named doc holding text
Ingest ==
    \E doc \in DocNames, text \in IngestTexts :
       LET cs == ChunkText(text, doc, IngestMaxChars, IngestOverlap)
       IN /\ rows' = IngestFile(rows, doc, text)
          /\ ilast' = [ilast EXCEPT ![doc] = [done |-> TRUE, text |-> text, chunks |-> cs]]
          /\ iop' = [op |-> "ingest", doc |-> doc,
                     same |-> ilast[doc].done /\ ilast[doc].text = text,
                     fewer |-> ilast[doc].done /\ Len(cs) < Len(ilast[doc].chunks),
                     before |-> rows]
          /\ UNCHANGED <<lastWrite, spc, sres, chunkVars, ragVars, concVars, embVars, splitVars>>

NextIngest == Ingest

\* what query returns for a document, as (id, text) pairs
Retrievable(doc) ==
    LET res == Query(rows, <<8, 0>>, TopKAll, [doc_name |-> doc])
    IN {[id |-> res[k].id, text |-> res[k].text] : k \in 1..Len(res)}

LatestChunks(doc) ==
    {[id |-> ilast[doc].chunks[k].chunk_id, text |-> ilast[doc].chunks[k].text] :
        k \in 1..Len(ilast[doc].chunks)}

\* ingesting the same text again leaves the records of the store as they were
C15_SameTextUnchanged ==
    (iop.op = "ingest" /\ iop.same) => Range(rows) = Range(iop.before)

\* C15: after any sequence of ingests the records stored under a doc_name are
\* exactly the chunks of the most recent ingest of that doc_name: ingesting the
\* same text again leaves the store unchanged, and after ingesting a version
\* with fewer chunks no chunk of the earlier version is retrievable by query.
C15_StoreHoldsLatestIngest ==
    /\ \A doc \in DocNames : ilast[doc].done => Retrievable(doc) = LatestChunks(doc)
    /\ C15_SameTextUnchanged

\* ------------------------------------------------------------------ chunk_text, statement by statement
\*
\* The same call as Segment, taken one loop iteration at a time: the loop over
\* the sections, the loop over the paragraphs of a section, and the while loop
\* that hard-splits a paragraph longer than max_chars.

MaxSplitLen == 4

\* p[a:b], with Python's reading of a negative or too large index
PyIndex(p, i) == IF i < 0 THEN Max(Len(p) + i, 0) ELSE Min(i, Len(p))

PySlice(p, a, b) == SubSeq(p, PyIndex(p, a) + 1, PyIndex(p, b))

\* max_chars - overlap_chars
SplitAdvanceNoFloor(max_chars, overlap_chars) == max_chars - overlap_chars

\* max_chars - overlap_chars if max_chars > overlap_chars else max_chars
SplitAdvance(max_chars, overlap_chars) ==
    IF max_chars > overlap_chars THEN max_chars - overlap_chars ELSE max_chars

\* sections = split_into_sections(normalize_text(text)) or [("BODY", text)]
SectionsOf(text) ==
    LET norm == NormalizeText(text)
        secs == SplitIntoSections(norm)
    IN IF secs = << >> THEN <<[title |-> <<"B", "O", "D", "Y">>, text |-> norm]>> ELSE secs

InitSplitIdle ==
    /\ hsections = << >>
    /\ hsi = 0
    /\ hparas = << >>
    /\ hpi = 0
    /\ hbuf = << >>
    /\ hseq = 0
    /\ hchunks = << >>
    /\ hp = << >>
    /\ hstart = 0
    /\ hpc = "idle"

\* the texts of a call
SplitTexts == SeqsUpTo(Alphabet, MaxSplitLen) \cup SampleTexts

SplitRest == <<storeVars, ragVars, concVars, embVars, ingVars>>

\* chunk_text(text, doc_name=DocName, max_chars=..., overlap_chars=...) with any
\* text, max_chars >= 1 and overlap_chars >= 0:
\* text = normalize_text(text); sections = ...; chunks = []; seq = 0
SplitCall ==
    /\ hpc = "idle"
    /\ \E text \in SplitTexts, max_chars \in 1..MaxChars, overlap_chars \in 0..MaxOverlap :
          /\ ctext' = text
          /\ cmax' = max_chars
          /\ cov' = overlap_chars
          /\ hsections' = SectionsOf(text)
    /\ hsi' = 1
    /\ hchunks' = << >>
    /\ hseq' = 0
    /\ hpc' = "sections"
    /\ UNCHANGED <<hparas, hpi, hbuf, hp, hstart, cout, ccalls, cprev, SplitRest>>

\* for section_title, section_text in sections: paras = [...]; buf = ""
NextSection ==
    /\ hpc = "sections"
    /\ hsi <= Len(hsections)
    /\ hparas' = Paragraphs(hsections[hsi].text)
    /\ hpi' = 1
    /\ hbuf' = << >>
    /\ hpc' = "paras"
    /\ UNCHANGED <<hsections, hsi, hseq, hchunks, hp, hstart, chunkVars, SplitRest>>

\* return chunks
SplitReturn ==
    /\ hpc = "sections"
    /\ hsi > Len(hsections)
    /\ cout' = hchunks
    /\ ccalls' = "once"
    /\ hpc' = "done"
    /\ UNCHANGED <<hsections, hsi, hparas, hpi, hbuf, hseq, hchunks, hp, hstart,
                   ctext, cmax, cov, cprev, SplitRest>>

\* candidate = (buf + "\n\n" + p).strip() if buf else p
Candidate == IF hbuf # << >> THEN Strip(hbuf \o <<NL, NL>> \o hparas[hpi]) ELSE hparas[hpi]

SplitChunk(text) == MakeChunk(DocName, hseq, text, hsections[hsi].title, hsi)

\* if len(candidate) <= max_chars: buf = candidate; continue
ParaFits ==
    /\ hpc = "paras"
    /\ hpi <= Len(hparas)
    /\ Len(Candidate) <= cmax
    /\ hbuf' = Candidate
    /\ hpi' = hpi + 1
    /\ UNCHANGED <<hsections, hsi, hparas, hseq, hchunks, hp, hstart, hpc, chunkVars, SplitRest>>

\* if buf: flush buf, start the next one with the overlap tail
ParaFlush ==
    /\ hpc = "paras"
    /\ hpi <= Len(hparas)
    /\ Len(Candidate) > cmax
    /\ hbuf # << >>
    /\ hchunks' = Append(hchunks, SplitChunk(hbuf))
    /\ hseq' = hseq + 1
    /\ hbuf' = Strip(OverlapTail(hbuf, cov) \o <<NL, NL>> \o hparas[hpi])
    /\ hpi' = hpi + 1
    /\ UNCHANGED <<hsections, hsi, hparas, hp, hstart, hpc, chunkVars, SplitRest>>

\* else: start = 0
ParaHardSplit ==
    /\ hpc = "paras"
    /\ hpi <= Len(hparas)
    /\ Len(Candidate) > cmax
    /\ hbuf = << >>
    /\ hp' = hparas[hpi]
    /\ hstart' = 0
    /\ hpc' = "loop"
    /\ UNCHANGED <<hsections, hsi, hparas, hpi, hbuf, hseq, hchunks, chunkVars, SplitRest>>

\* while start < len(p): piece = p[start : start + max_chars]; append; seq += 1;
\* start += max_chars - overlap_chars if max_chars > overlap_chars else max_chars
LoopStep ==
    /\ hpc = "loop"
    /\ hstart < Len(hp)
    /\ hchunks' = Append(hchunks, SplitChunk(PySlice(hp, hstart, hstart + cmax)))
    /\ hseq' = hseq + 1
    /\ hstart' = hstart + SplitAdvance(cmax, cov)
    /\ UNCHANGED <<hsections, hsi, hparas, hpi, hbuf, hp, hpc, chunkVars, SplitRest>>

\* the while loop ends: buf = ""
LoopExit ==
    /\ hpc = "loop"
    /\ hstart >= Len(hp)
    /\ hbuf' = << >>
    /\ hpi' = hpi + 1
    /\ hpc' = "paras"
    /\ UNCHANGED <<hsections, hsi, hparas, hseq, hchunks, hp, hstart, chunkVars, SplitRest>>

\* the paragraphs of the section are used up: if buf: flush it
SectionEnd ==
    /\ hpc = "paras"
    /\ hpi > Len(hparas)
    /\ IF hbuf # << >>
       THEN /\ hchunks' = Append(hchunks, SplitChunk(hbuf))
            /\ hseq' = hseq + 1
       ELSE UNCHANGED <<hchunks, hseq>>
    /\ hsi' = hsi + 1
    /\ hpc' = "sections"
    /\ UNCHANGED <<hsections, hparas, hpi, hbuf, hp, hstart, chunkVars, SplitRest>>

\* the statements of a call that was made
SplitRun ==
    \/ NextSection
    \/ SplitReturn
    \/ ParaFits
    \/ ParaFlush
    \/ ParaHardSplit
    \/ LoopStep
    \/ LoopExit
    \/ SectionEnd

NextSplit == SplitCall \/ SplitRun

\* ------------------------------------------------------------------ hard-split claims

\* the text of the chunk appended last
LastPiece(cs) == cs[Len(cs)].text

\* while the hard split runs, start has not gone a whole window past the end
WindowInRange == hpc = "loop" => (hstart >= 0 /\ hstart < Len(hp) + cmax)

\* the call returns what chunk_text returns, and nothing for an empty text
ReturnsChunkText ==
    hpc = "done" => /\ cout = ChunkText(ctext, DocName, cmax, cov)
                    /\ (ctext = << >> => cout = << >>)

\* one iteration of the hard split moves start forward by the step and appends
\* one non-empty window
WindowAdvances ==
    (hpc = "loop" /\ hpc' = "loop")
        => /\ hstart' > hstart
           /\ hstart' - hstart = (IF cmax > cov THEN cmax - cov ELSE cmax)
           /\ Len(hchunks') = Len(hchunks) + 1
           /\ Len(LastPiece(hchunks')) >= 1
           /\ Len(LastPiece(hchunks')) <= cmax

\* C16: chunk_text terminates for every text, every max_chars >= 1 and every
\* overlap_chars >= 0, overlap_chars >= max_chars included: each step of the
\* hard split moves the window start strictly forward (by max_chars -
\* overlap_chars when max_chars > overlap_chars, by max_chars otherwise) and
\* appends a non-empty window, every call that was made reaches its return, and
\* an empty text returns zero chunks.
C16_SegmentTerminates ==
    /\ [](WindowInRange /\ ReturnsChunkText)
    /\ [][WindowAdvances]_vars
    /\ (hpc # "idle") ~> (hpc = "done")

\* a returned call that hard-split a paragraph into several windows with
\* overlap_chars >= max_chars
C16_Witness ==
    /\ hpc = "done"
    /\ cov >= cmax
    /\ Len(hp) > cmax
    /\ Len(cout) >= 2

\* ------------------------------------------------------------------ idle parts

InitChunkIdle ==
    /\ ctext = << >>
    /\ cmax = 1
    /\ cov = 0
    /\ cout = << >>
    /\ ccalls = "none"
    /\ cprev = << >>

InitRagIdle ==
    /\ llm = "none"
    /\ backend = << >>
    /\ req = NoRequest
    /\ phase = "IDLE"
    /\ di = 0
    /\ chunks = << >>
    /\ gate = NoGate
    /\ results = << >>
    /\ output = NoOutput
    /\ err = ""
    /\ log = << >>
    /\ path = << >>
    /\ calls = << >>

\* ------------------------------------------------------------------ specifications

\* the store alone: no segmenter call, no request
InitStoreOnly == InitStore /\ InitChunkIdle /\ InitRagIdle /\ InitConcIdle /\ InitEmbedIdle /\ InitIngestIdle /\ InitSplitIdle

SpecStore == InitStoreOnly /\ [][NextStore]_vars

\* the segmenter alone: an empty store, no request
InitChunkOnly == InitChunk /\ InitStore /\ InitRagIdle /\ InitConcIdle /\ InitEmbedIdle /\ InitIngestIdle /\ InitSplitIdle

SpecChunk == InitChunkOnly /\ [][NextChunk]_vars

\* the service over an ingested store
Init == InitRag /\ InitChunkIdle /\ InitConcIdle /\ InitEmbedIdle /\ InitIngestIdle /\ InitSplitIdle

Spec == Init /\ [][Next]_vars

\* a writer and a reader thread on an empty store
InitConc == InitStore /\ InitConcIdle /\ InitChunkIdle /\ InitRagIdle /\ InitEmbedIdle /\ InitIngestIdle /\ InitSplitIdle

SpecConc == InitConc /\ [][NextConc]_vars

\* the embedder on bounded texts
InitEmbed == InitEmbedInput /\ InitStore /\ InitConcIdle /\ InitChunkIdle /\ InitRagIdle /\ InitIngestIdle /\ InitSplitIdle

SpecEmbed == InitEmbed /\ [][NextEmbed]_vars

\* ingests into an empty store
InitIngest == InitStore /\ InitIngestIdle /\ InitConcIdle /\ InitEmbedIdle /\ InitChunkIdle /\ InitRagIdle /\ InitSplitIdle

SpecIngest == InitIngest /\ [][NextIngest]_vars

\* one chunk_text call, statement by statement; a call that was made keeps
\* executing its statements
InitSplit == InitSplitIdle /\ InitChunkIdle /\ InitStore /\ InitRagIdle /\ InitConcIdle /\ InitEmbedIdle /\ InitIngestIdle

SpecSplit == InitSplit /\ [][NextSplit]_vars /\ WF_vars(SplitRun)
====
